---- MODULE Spec2Model ----
(***************************************************************************)
(* Model of src/app.py: a Flask application with one route pair.  GET /    *)
(* renders a page; POST / (generate_name) validates two text fields,       *)
(* calls the OpenAI chat-completions API once and optionally logs the call *)
(* to Weights & Biases.                                                    *)
(*                                                                         *)
(* Python strings that the code inspects (the two input fields) are        *)
(* sequences of one-character strings, so that str.strip() is computed.    *)
(* Strings the code only passes along (generated text, messages of         *)
(* exceptions) are TLA+ strings.  f-strings are sequences of their parts.  *)
(* The handler is split at its blocking external calls: the position of    *)
(* the request inside generate_name is pc.                                 *)
(***************************************************************************)
EXTENDS Integers, Sequences, FiniteSets, TLC

VARIABLES
    client,             \* module global `client`: "OpenAI" or "None"
    wandb_run,          \* wandb.run: "None", or the run's mode ("online", "disabled")
    pc,                 \* position of the current request
    method,             \* HTTP method of the current request
    body,               \* body of the current POST
    is_wandb_enabled,   \* local of generate_name
    product_type,       \* local of generate_name
    key_feature,        \* local of generate_name
    prompt_user,        \* local of generate_name
    response,           \* what client.chat.completions.create returned
    exc,                \* the exception an except clause caught (its `e`)
    escaping,           \* the exception that left generate_name uncaught
    gen_calls,          \* calls made to the OpenAI API while handling this request
    wandb_log,          \* calls made to wandb.log while handling this request
    http                \* the HTTP response generate_name / index returned

vars == <<client, wandb_run, pc, method, body, is_wandb_enabled, product_type,
          key_feature, prompt_user, response, exc, escaping, gen_calls, wandb_log, http>>

(***************************************************************************)
(* Bounds of the model.                                                    *)
(***************************************************************************)
MaxLen == 2

Whitespace == {" ", "\t"}
Chars == Whitespace \cup {"a"}

RECURSIVE StringsUpTo(_)
StringsUpTo(n) ==
    IF n = 0 THEN {<<>>}
    ELSE LET shorter == StringsUpTo(n - 1)
         IN  shorter \cup {Append(s, c) : s \in {t \in shorter : Len(t) = n - 1}, c \in Chars}

Strings == StringsUpTo(MaxLen)

(***************************************************************************)
(* Request bodies.  A field of a JSON object is absent, null, a number or  *)
(* a string.  A body is not JSON at all, JSON that is not an object, or an *)
(* object with the two fields.                                             *)
(***************************************************************************)
Absent == [t |-> "absent", s |-> <<>>]
JsonNull == [t |-> "null", s |-> <<>>]
JsonNumber == [t |-> "number", s |-> <<>>]
JsonString(s) == [t |-> "string", s |-> s]

FieldValues == {Absent, JsonNull, JsonNumber} \cup {JsonString(s) : s \in Strings}

NotJson == [kind |-> "not_json", product_type |-> Absent, key_feature |-> Absent]
JsonArray == [kind |-> "array", product_type |-> Absent, key_feature |-> Absent]
JsonObject(p, k) == [kind |-> "object", product_type |-> p, key_feature |-> k]

Bodies == {NotJson, JsonArray} \cup {JsonObject(p, k) : p \in FieldValues, k \in FieldValues}
NoBody == [kind |-> "none", product_type |-> Absent, key_feature |-> Absent]

(***************************************************************************)
(* Constants of app.py.                                                    *)
(***************************************************************************)
MODEL_NAME == "gpt-4o-mini"

SYSTEM_PROMPT ==
    "You are a highly irreverent, slightly broken marketing algorithm specializing in generating product names, slogans, and descriptions that are utterly ridiculous, absurd, and nonsensical. Your names must sound professionally stupid, like something a startup would try to pitch. Respond only with the product details, formatted neatly using markdown headings."

DefaultProductType ==
    <<"u", "n", "n", "e", "c", "e", "s", "s", "a", "r", "y", " ", "g", "a", "d", "g", "e", "t">>

DefaultKeyFeature ==
    <<"v", "i", "b", "r", "a", "t", "e", "s", " ", "e", "v", "e", "r", "y", " ", "t", "i", "m",
      "e", " ", "y", "o", "u", " ", "t", "h", "i", "n", "k", " ", "a", "b", "o", "u", "t", " ",
      "s", "q", "u", "i", "r", "r", "e", "l", "s">>

(***************************************************************************)
(* str.strip(): drop leading and trailing whitespace.                      *)
(***************************************************************************)
RECURSIVE lstrip(_)
lstrip(s) == IF s # <<>> /\ Head(s) \in Whitespace THEN lstrip(Tail(s)) ELSE s

RECURSIVE rstrip(_)
rstrip(s) ==
    IF s # <<>> /\ s[Len(s)] \in Whitespace THEN rstrip(SubSeq(s, 1, Len(s) - 1)) ELSE s

\* The field used as supplied, .strip() left out.
strip_missing(s) == s

strip(s) == rstrip(lstrip(s))

(***************************************************************************)
(* data.get(key, default): the value under key, the default when absent.   *)
(***************************************************************************)
dict_get(value, default) == IF value.t = "absent" THEN JsonString(default) ELSE value

\* `and` written for `or`.
MissingInput_and(pt, kf) == pt = <<>> /\ kf = <<>>

\* `not product_type or not key_feature`
MissingInput(pt, kf) == pt = <<>> \/ kf = <<>>

\* The pre-check of the client left out.
NotClient_unchecked == FALSE

\* `not client`
NotClient == client = "None"

\* wandb.run is not None and wandb.run.mode != 'disabled'
WandbActive == wandb_run # "None" /\ wandb_run # "disabled"

\* the f-string prompt_user
PromptUser(pt, kf) ==
    <<"Generate a product concept for a ">> \o pt \o <<" with the key feature: '">> \o kf
        \o <<"'. ", "Format the response strictly with these three sections: Name, Slogan, and Description.">>

Messages(prompt) ==
    << [role |-> "system", content |-> <<SYSTEM_PROMPT>>],
       [role |-> "user", content |-> prompt] >>

CreateCall(prompt) ==
    [model |-> MODEL_NAME, messages |-> Messages(prompt), temperature |-> "0.9",
     max_tokens |-> 512]

(***************************************************************************)
(* HTTP responses.  A JSON response is one key with a string value; the    *)
(* value is a sequence of the parts of the string.                         *)
(***************************************************************************)
NoResponse == [status |-> 0, key |-> "none", value |-> <<>>]
Page == [status |-> 200, key |-> "html", value |-> <<"index.html">>]
ConfigErrorResponse ==
    [status |-> 500, key |-> "error",
     value |-> <<"AI service is not configured. OPENAI_API_KEY is missing.">>]
ValidationErrorResponse ==
    [status |-> 400, key |-> "error",
     value |-> <<"Please provide both a product type and a key feature.">>]
TextResponse(text) == [status |-> 200, key |-> "text", value |-> <<text>>]
ApiErrorResponse(e) ==
    [status |-> 500, key |-> "error",
     value |-> <<"OpenAI API failed: ", ToString(e.status_code),
                 ". Please check your key or rate limits.">>]
InternalErrorResponse ==
    [status |-> 500, key |-> "error", value |-> <<"An internal server error occurred.">>]

(***************************************************************************)
(* Exceptions.  An APIError of the OpenAI client carries status_code only  *)
(* when it is an APIStatusError; a connection error or a timeout has none. *)
(***************************************************************************)
NoException == [type |-> "None", has_status_code |-> FALSE, status_code |-> 0, text |-> ""]
Raised(text) == [type |-> "Exception", has_status_code |-> FALSE, status_code |-> 0, text |-> text]
APIStatusError(code) ==
    [type |-> "APIError", has_status_code |-> TRUE, status_code |-> code,
     text |-> "Error code"]
APIConnectionError ==
    [type |-> "APIError", has_status_code |-> FALSE, status_code |-> 0,
     text |-> "Connection error."]

NoUsage == [present |-> FALSE, prompt_tokens |-> 0, completion_tokens |-> 0, total_tokens |-> 0]
NoApiResponse == [received |-> FALSE, content |-> "", usage |-> NoUsage]

TypeOK ==
    /\ client \in {"OpenAI", "None"}
    /\ wandb_run \in {"None", "online", "disabled"}
    /\ pc \in {"idle", "generate_name", "call_openai", "wandb_log", "except_APIError",
               "except_Exception", "done", "escaped"}
    /\ method \in {"none", "GET", "POST"}
    /\ body \in Bodies \cup {NoBody}
    /\ is_wandb_enabled \in BOOLEAN
    /\ exc.type \in {"None", "APIError", "Exception"}
    /\ escaping.type \in {"None", "Exception"}
    /\ http.status \in {0, 200, 400, 500}

(***************************************************************************)
(* Startup (lines 13-32): wandb.init runs when WANDB_KEY is set and may    *)
(* fail; OpenAI() fails when no credential is configured.                  *)
(***************************************************************************)
Init ==
    /\ client \in {"OpenAI", "None"}
    /\ wandb_run \in {"None", "online", "disabled"}
    /\ pc = "idle"
    /\ method = "none"
    /\ body = NoBody
    /\ is_wandb_enabled = FALSE
    /\ product_type = <<>>
    /\ key_feature = <<>>
    /\ prompt_user = <<>>
    /\ response = NoApiResponse
    /\ exc = NoException
    /\ escaping = NoException
    /\ gen_calls = <<>>
    /\ wandb_log = <<>>
    /\ http = NoResponse

\* GET /: index() (lines 46-49) renders the page.
Get ==
    /\ pc = "idle"
    /\ method' = "GET"
    /\ pc' = "done"
    /\ http' = Page
    /\ UNCHANGED <<client, wandb_run, body, is_wandb_enabled, product_type, key_feature,
                   prompt_user, response, exc, escaping, gen_calls, wandb_log>>

\* POST / arrives with body b: generate_name is entered.
Post(b) ==
    /\ pc = "idle"
    /\ method' = "POST"
    /\ body' = b
    /\ pc' = "generate_name"
    /\ UNCHANGED <<client, wandb_run, is_wandb_enabled, product_type, key_feature,
                   prompt_user, response, exc, escaping, gen_calls, wandb_log, http>>

\* The request is over: its locals and its response are gone, the globals stay.
EndRequest ==
    /\ pc \in {"done", "escaped"}
    /\ pc' = "idle"
    /\ method' = "none"
    /\ body' = NoBody
    /\ is_wandb_enabled' = FALSE
    /\ product_type' = <<>>
    /\ key_feature' = <<>>
    /\ prompt_user' = <<>>
    /\ response' = NoApiResponse
    /\ exc' = NoException
    /\ escaping' = NoException
    /\ gen_calls' = <<>>
    /\ wandb_log' = <<>>
    /\ http' = NoResponse
    /\ UNCHANGED <<client, wandb_run>>

\* `return jsonify(...), status`
Return(r) ==
    /\ pc' = "done"
    /\ http' = r

\* An exception raised inside the try block is caught by the first except clause
\* that matches it.
Catch(e) ==
    /\ pc' = IF e.type = "APIError" THEN "except_APIError" ELSE "except_Exception"
    /\ exc' = e
    /\ http' = http

\* An exception raised inside an except clause leaves generate_name.
Escape(e) ==
    /\ pc' = "escaped"
    /\ escaping' = e
    /\ http' = http

(***************************************************************************)
(* Lines 55-79: the pre-check of the client, is_wandb_enabled, parsing and *)
(* validation of the input, the prompt.                                    *)
(***************************************************************************)
PreChecks ==
    /\ pc = "generate_name"
    /\ UNCHANGED <<client, wandb_run, method, body, response, escaping, gen_calls, wandb_log>>
    /\ IF NotClient
       THEN /\ Return(ConfigErrorResponse)
            /\ UNCHANGED <<is_wandb_enabled, product_type, key_feature, prompt_user, exc>>
       ELSE /\ is_wandb_enabled' = WandbActive
            /\ IF body.kind = "not_json"
               THEN \* request.get_json() raises
                    /\ Catch(Raised("400 Bad Request"))
                    /\ UNCHANGED <<product_type, key_feature, prompt_user>>
               ELSE IF body.kind # "object"
               THEN \* data.get raises AttributeError
                    /\ Catch(Raised("object has no attribute 'get'"))
                    /\ UNCHANGED <<product_type, key_feature, prompt_user>>
               ELSE LET p == dict_get(body.product_type, DefaultProductType)
                        k == dict_get(body.key_feature, DefaultKeyFeature)
                    IN  IF p.t # "string"
                        THEN \* .strip() of None or of a number raises AttributeError
                             /\ Catch(Raised("object has no attribute 'strip'"))
                             /\ UNCHANGED <<product_type, key_feature, prompt_user>>
                        ELSE IF k.t # "string"
                        THEN /\ product_type' = strip(p.s)
                             /\ Catch(Raised("object has no attribute 'strip'"))
                             /\ UNCHANGED <<key_feature, prompt_user>>
                        ELSE /\ product_type' = strip(p.s)
                             /\ key_feature' = strip(k.s)
                             /\ IF MissingInput(strip(p.s), strip(k.s))
                                THEN /\ Return(ValidationErrorResponse)
                                     /\ UNCHANGED <<prompt_user, exc>>
                                ELSE /\ prompt_user' = PromptUser(strip(p.s), strip(k.s))
                                     /\ pc' = "call_openai"
                                     /\ UNCHANGED <<exc, http>>

(***************************************************************************)
(* What the OpenAI API can answer.                                         *)
(***************************************************************************)
Contents == {"## Name", " ## Slogan "}
Usages == {NoUsage,
           [present |-> TRUE, prompt_tokens |-> 90, completion_tokens |-> 30,
            total_tokens |-> 120]}
StatusCodes == {401, 429}

ApiAnswers ==
    {[received |-> TRUE, content |-> c, usage |-> u] : c \in Contents, u \in Usages}
ApiFailures ==
    {APIStatusError(code) : code \in StatusCodes}
        \cup {APIConnectionError, Raised("list index out of range")}

\* The record wandb.log receives for a successful call (lines 96-116).
SuccessRecord(usage, prompt, text, pt, kf) ==
    [kind |-> "llm_calls",
     llm_calls |-> [timestamp |-> "now", model |-> MODEL_NAME,
                    prompt_tokens |-> usage.prompt_tokens,
                    completion_tokens |-> usage.completion_tokens,
                    total_tokens |-> usage.total_tokens,
                    input |-> prompt, output |-> text],
     token_usage_prompt |-> usage.prompt_tokens,
     token_usage_completion |-> usage.completion_tokens,
     token_usage_total |-> usage.total_tokens,
     product_type_input |-> pt,
     key_feature_input |-> kf]

\* The record wandb.log receives in `except APIError` (line 126).
ApiErrorRecord(e) ==
    [kind |-> "error", error |-> <<"OpenAI API failed: ", ToString(e.status_code)>>,
     error_details |-> e.text]

\* An error record without the failure description.
InternalErrorRecord_blank(e) ==
    [kind |-> "error", error |-> <<>>, error_details |-> ""]

\* The record wandb.log receives in `except Exception` (line 132).
InternalErrorRecord(e) ==
    [kind |-> "error", error |-> <<"Internal Server Error">>, error_details |-> e.text]

\* One call of wandb.log: the record, and whether the call raised.
LogCall(record, ok) == [record |-> record, raised |-> ~ok]

(***************************************************************************)
(* Lines 81-89 (and 119-120 when W&B is off): the one call of the OpenAI   *)
(* API, which answers or raises.                                           *)
(***************************************************************************)
CallOpenAI ==
    /\ pc = "call_openai"
    /\ gen_calls' = Append(gen_calls, CreateCall(prompt_user))
    /\ UNCHANGED <<client, wandb_run, method, body, is_wandb_enabled, product_type,
                   key_feature, prompt_user, escaping, wandb_log>>
    /\ \/ \E answer \in ApiAnswers :
            /\ response' = answer
            /\ IF is_wandb_enabled
               THEN /\ pc' = "wandb_log"
                    /\ UNCHANGED <<http, exc>>
               ELSE /\ Return(TextResponse(answer.content))
                    /\ UNCHANGED exc
       \/ \E e \in ApiFailures :
            /\ Catch(e)
            /\ UNCHANGED response

(***************************************************************************)
(* Lines 92-120: the W&B table and wandb.log of a successful call, then    *)
(* the response.  usage may be None; wandb.Table and wandb.log may raise.  *)
(***************************************************************************)
LogSuccess ==
    /\ pc = "wandb_log"
    /\ UNCHANGED <<client, wandb_run, method, body, is_wandb_enabled, product_type,
                   key_feature, prompt_user, response, escaping, gen_calls>>
    /\ IF ~response.usage.present
       THEN /\ Catch(Raised("'NoneType' object has no attribute 'prompt_tokens'"))
            /\ UNCHANGED wandb_log
       ELSE \E table_ok \in BOOLEAN, log_ok \in BOOLEAN :
            IF ~table_ok
            THEN /\ Catch(Raised("wandb.Table failed"))
                 /\ UNCHANGED wandb_log
            ELSE /\ wandb_log' = Append(wandb_log,
                        LogCall(SuccessRecord(response.usage, prompt_user, response.content,
                                              product_type, key_feature), log_ok))
                 /\ IF log_ok
                    THEN /\ Return(TextResponse(response.content))
                         /\ UNCHANGED exc
                    ELSE Catch(Raised("wandb.log failed"))

\* A handler that goes back to the call after an APIError.
ExceptAPIError_retry ==
    /\ pc = "except_APIError"
    /\ pc' = "call_openai"
    /\ UNCHANGED <<client, wandb_run, method, body, is_wandb_enabled, product_type,
                   key_feature, prompt_user, response, gen_calls, exc, escaping, wandb_log,
                   http>>

(***************************************************************************)
(* Lines 122-127: except APIError.  Reading e.status_code of an APIError   *)
(* that has none raises AttributeError, and so may wandb.log; neither is   *)
(* inside a try block.                                                     *)
(***************************************************************************)
ExceptAPIError ==
    /\ pc = "except_APIError"
    /\ UNCHANGED <<client, wandb_run, method, body, is_wandb_enabled, product_type,
                   key_feature, prompt_user, response, exc, gen_calls>>
    /\ IF ~exc.has_status_code
       THEN /\ Escape(Raised("'APIConnectionError' object has no attribute 'status_code'"))
            /\ UNCHANGED wandb_log
       ELSE IF is_wandb_enabled
       THEN \E log_ok \in BOOLEAN :
            /\ wandb_log' = Append(wandb_log, LogCall(ApiErrorRecord(exc), log_ok))
            /\ IF log_ok
               THEN /\ Return(ApiErrorResponse(exc))
                    /\ UNCHANGED escaping
               ELSE Escape(Raised("wandb.log failed"))
       ELSE /\ Return(ApiErrorResponse(exc))
            /\ UNCHANGED <<escaping, wandb_log>>

(***************************************************************************)
(* Lines 128-133: except Exception.  wandb.log may raise here too.         *)
(***************************************************************************)
ExceptException ==
    /\ pc = "except_Exception"
    /\ UNCHANGED <<client, wandb_run, method, body, is_wandb_enabled, product_type,
                   key_feature, prompt_user, response, exc, gen_calls>>
    /\ IF is_wandb_enabled
       THEN \E log_ok \in BOOLEAN :
            /\ wandb_log' = Append(wandb_log, LogCall(InternalErrorRecord(exc), log_ok))
            /\ IF log_ok
               THEN /\ Return(InternalErrorResponse)
                    /\ UNCHANGED escaping
               ELSE Escape(Raised("wandb.log failed"))
       ELSE /\ Return(InternalErrorResponse)
            /\ UNCHANGED <<escaping, wandb_log>>

Next ==
    \/ Get
    \/ \E b \in Bodies : Post(b)
    \/ PreChecks
    \/ CallOpenAI
    \/ LogSuccess
    \/ ExceptAPIError
    \/ ExceptException
    \/ EndRequest

Spec == Init /\ [][Next]_vars

(***************************************************************************)
(* Vocabulary of the properties, stated on the request body and on the     *)
(* response rather than on the handler's locals.                           *)
(***************************************************************************)
Finished == method = "POST" /\ pc \in {"done", "escaped"}

IsBlank(s) == \A i \in 1..Len(s) : s[i] \in Whitespace

\* The field resolves (value supplied or default, then trimmed) to the empty string.
ResolvesEmpty(v, default) == IsBlank(IF v.t = "absent" THEN default ELSE v.s)

\* A JSON object whose fields, where present, are strings.
TextFields ==
    /\ body.kind = "object"
    /\ body.product_type.t \in {"absent", "string"}
    /\ body.key_feature.t \in {"absent", "string"}

SomeFieldResolvesEmpty ==
    \/ ResolvesEmpty(body.product_type, DefaultProductType)
    \/ ResolvesEmpty(body.key_feature, DefaultKeyFeature)

IsValidationError(r) ==
    /\ r.status = 400
    /\ r.key = "error"
    /\ r.value = <<"Please provide both a product type and a key feature.">>

IsConfigurationError(r) ==
    /\ r.status = 500
    /\ r.key = "error"
    /\ r.value = <<"AI service is not configured. OPENAI_API_KEY is missing.">>

IsInternalError(r) ==
    /\ r.status = 500
    /\ r.key = "error"
    /\ r.value = <<"An internal server error occurred.">>

SuccessRecords == {i \in DOMAIN wandb_log : wandb_log[i].record.kind = "llm_calls"}
ErrorRecords == {i \in DOMAIN wandb_log : wandb_log[i].record.kind = "error"}

(***************************************************************************)
(* C1 as amended: when the OpenAI client is available, every POST whose    *)
(* body is a JSON object with string (or absent) fields and whose resolved *)
(* product_type or key_feature is empty is answered 400 with the           *)
(* validation message, and the OpenAI API is not called for it.            *)
(***************************************************************************)
C1_EmptyFieldRejected ==
    (method = "POST" /\ client = "OpenAI" /\ TextFields /\ SomeFieldResolvesEmpty)
        => /\ gen_calls = <<>>
           /\ pc \in {"generate_name", "done"}
           /\ pc = "done" => IsValidationError(http)

\* C1 as stated: an empty resolved field gives 400 and no call, whatever the client.
C1_Original ==
    (method = "POST" /\ TextFields /\ SomeFieldResolvesEmpty)
        => /\ gen_calls = <<>>
           /\ pc = "done" => IsValidationError(http)

C1_Witness ==
    /\ Finished
    /\ client = "OpenAI"
    /\ body.product_type = JsonString(<<" ", "\t">>)
    /\ body.key_feature = JsonString(<<"a">>)
    /\ IsValidationError(http)

(***************************************************************************)
(* C2 as amended: when the OpenAI client is available, a POST that         *)
(* supplies only whitespace (or nothing) in a string field is answered 400 *)
(* with the exact validation message; a POST missing both fields is not    *)
(* rejected: the defaults apply and the OpenAI API is called with them.    *)
(***************************************************************************)
SuppliesOnlyWhitespace ==
    \/ body.product_type.t = "string" /\ IsBlank(body.product_type.s)
    \/ body.key_feature.t = "string" /\ IsBlank(body.key_feature.s)

MissingBoth == body = JsonObject(Absent, Absent)

C2_WhitespaceRejectedDefaultsAccepted ==
    (Finished /\ client = "OpenAI")
        => /\ (TextFields /\ SuppliesOnlyWhitespace) => (pc = "done" /\ IsValidationError(http))
           /\ MissingBoth =>
                /\ ~IsValidationError(http)
                /\ Len(gen_calls) = 1
                /\ gen_calls[1].messages[2].content
                      = PromptUser(DefaultProductType, DefaultKeyFeature)

\* C2 as stated (with the client available): missing both fields, or only
\* whitespace in them, gives 400 with the validation message.
C2_Original ==
    (Finished /\ client = "OpenAI" /\ TextFields /\ (MissingBoth \/ SuppliesOnlyWhitespace))
        => (pc = "done" /\ IsValidationError(http))

C2_Witness ==
    /\ Finished
    /\ client = "OpenAI"
    /\ body = JsonObject(JsonString(<<"\t">>), JsonString(<<" ", " ">>))
    /\ IsValidationError(http)

(***************************************************************************)
(* C3: when the client handle is None, every POST, whatever its body, is   *)
(* answered 500 with the configuration-error message; the OpenAI API is    *)
(* never called and nothing is logged to W&B.                              *)
(***************************************************************************)
C3_UnconfiguredAlways500 ==
    (method = "POST" /\ client = "None")
        => /\ gen_calls = <<>>
           /\ wandb_log = <<>>
           /\ pc \in {"generate_name", "done"}
           /\ pc = "done" => IsConfigurationError(http)

C3_Witness ==
    /\ Finished
    /\ client = "None"
    /\ WandbActive
    /\ body = JsonObject(JsonString(<<"a">>), JsonString(<<"a", "a">>))
    /\ IsConfigurationError(http)

(***************************************************************************)
(* C4 as stated: when the OpenAI API returned text T for a POST, the       *)
(* response is exactly {"text": T} with status 200.                        *)
(***************************************************************************)
C4_Original ==
    (Finished /\ response.received)
        => /\ pc = "done"
           /\ http = [status |-> 200, key |-> "text", value |-> <<response.content>>]

(***************************************************************************)
(* C5 as stated: when the OpenAI call raised an APIError, the response is  *)
(* 500 with a JSON error whose message contains the provider's status code.*)
(***************************************************************************)
C5_Original ==
    (Finished /\ exc.type = "APIError")
        => /\ pc = "done"
           /\ http.status = 500
           /\ http.key = "error"
           /\ exc.has_status_code =>
                \E i \in DOMAIN http.value : http.value[i] = ToString(exc.status_code)

(***************************************************************************)
(* C6 as stated: a wandb.log call that raises does not change the          *)
(* response, which is the one the OpenAI call's outcome determined.        *)
(***************************************************************************)
DeterminedResponse ==
    IF response.received THEN TextResponse(response.content)
    ELSE IF exc.type = "APIError" THEN ApiErrorResponse(exc)
    ELSE InternalErrorResponse

C6_Original ==
    (Finished /\ \E i \in DOMAIN wandb_log : wandb_log[i].raised)
        => (pc = "done" /\ http = DeterminedResponse)

(***************************************************************************)
(* C7 as stated: with W&B enabled and a successful OpenAI call, exactly    *)
(* one success record is logged and no error record, and the record's      *)
(* input and output are the user prompt sent and the text returned.        *)
(***************************************************************************)
C7_Original ==
    (Finished /\ is_wandb_enabled /\ response.received)
        => /\ Cardinality(SuccessRecords) = 1
           /\ ErrorRecords = {}
           /\ \A i \in SuccessRecords :
                /\ wandb_log[i].record.llm_calls.input = gen_calls[1].messages[2].content
                /\ wandb_log[i].record.llm_calls.output = response.content

C9_NoRetry ==
    /\ Len(gen_calls) <= 1
    /\ exc.type # "None" => pc # "call_openai"

C9_Witness ==
    /\ Finished
    /\ exc.type = "APIError"
    /\ Len(gen_calls) = 1

(***************************************************************************)
(* C10 as stated: no exception leaves generate_name; every POST ends with  *)
(* {"text": ...} and 200 or {"error": ...} and 400 or 500, and a failure   *)
(* caught by `except Exception` gives the generic 500 message.             *)
(***************************************************************************)
C10_Original ==
    method = "POST"
        => /\ pc # "escaped"
           /\ pc = "done" =>
                \/ http.key = "text" /\ http.status = 200
                \/ http.key = "error" /\ http.status \in {400, 500}
           /\ (pc = "done" /\ exc.type = "Exception") => IsInternalError(http)

====
